---------------------------- MODULE Spec2Model ----------------------------
(***************************************************************************)
(* Model of MapEnv (src/map_env.py): the grid-world environment built from *)
(* a tile map, with its reset/step state machine.                          *)
(*                                                                         *)
(* Conventions.                                                            *)
(*  - A cell is <<x, y>>; numpy's matrix[y, x] is matrix[<<x, y>>] here.   *)
(*  - Rewards are counted in units of 0.5, so 1.0 is 2, -0.5 is -1, -5 is  *)
(*    -10 and 100.0 is 200.                                                *)
(*  - A distance is kept as its square: math.sqrt is strictly increasing   *)
(*    on the small integers that occur, so "<", "=" and min are the same   *)
(*    on the squares.  float('inf') is INF.                                *)
(*  - A tile map is the sequence of its visible tile layers, each layer    *)
(*    giving one gid per cell (0 is pytmx's gid of an empty cell); a layer *)
(*    is iterated row by row.                                              *)
(***************************************************************************)
EXTENDS Integers, Sequences, FiniteSets, TLC

(* Bounds of the model: the map's size and its number of visible layers.   *)
MapWidth == 2
MapHeight == 2
MaxLayers == 2

(* train.py's tile ids.                                                    *)
WALKABLE_GID == 8
ENEMY_GID == 48

walkable_gids == {WALKABLE_GID}
enemy_gids == {ENEMY_GID}

(* The gids a cell of a layer may carry: empty, walkable, enemy.           *)
Gids == {0, WALKABLE_GID, ENEMY_GID}

(* The actions a caller may pass to step: the four moves of action_space   *)
(* and the first integer outside it.                                       *)
ActionInputs == 0 .. 4

(* float('inf') of _get_distance_to_nearest_enemy.                         *)
INF == -1

(* The rewards of step, in units of 0.5.                                   *)
REWARD_OUT_OF_BOUNDS == -10
(* Variant: hitting a wall costs less than leaving the map.                *)
REWARD_WALL_Lighter == REWARD_OUT_OF_BOUNDS + 5
REWARD_WALL == -10
REWARD_CLOSER == 2
REWARD_NOT_CLOSER == -1
REWARD_GOAL == 200

VARIABLES
    tiled_map,        \* the visible tile layers the map was built from
    map_width,        \* self.map_width
    map_height,       \* self.map_height
    start_pos,        \* self.start_pos
    wall_matrix,      \* self.wall_matrix
    goal_matrix,      \* self.goal_matrix
    enemy_locations,  \* self.enemy_locations
    player_pos,       \* self.player_pos
    last_distance,    \* self.last_distance (squared, or INF)
    call,             \* the last call: its name, its argument, the state it found
    ret,              \* what the last call returned
    script,           \* scenario: scripted steps done since reset, -1 off script
    gen_pc,           \* generator: where create_rooms_and_corridors stands
    rooms,            \* generator: rooms
    attempts,         \* generator: attempts
    grid,             \* generator: grid
    pair,             \* generator: i of the corridor loop
    castles,          \* main: the origins c1, c2 of the castle blocks
    spawns,           \* main: spawns
    hero_pos          \* main: hero_pos

(* What __init__ sets and no method changes.                               *)
mapvars == <<tiled_map, map_width, map_height, start_pos, wall_matrix,
             goal_matrix, enemy_locations>>

envvars == <<mapvars, player_pos, last_distance, call, ret>>

genvars == <<gen_pc, rooms, attempts, grid, pair>>

mainvars == <<castles, spawns, hero_pos>>

vars == <<envvars, script, genvars, mainvars>>

(* The cells of the matrices: shape (map_height, map_width).               *)
Cells == (0 .. map_width - 1) \X (0 .. map_height - 1)

---------------------------------------------------------------------------
(* __init__: the matrices.                                                 *)

(* The i-th cell a layer's iteration yields (row by row).                  *)
CellAt(i) == <<i % map_width, i \div map_width>>

(* np.ones / np.zeros / [] before the loop over the layers.                *)
EmptyMatrices ==
    [wall |-> [c \in Cells |-> 1],
     goal |-> [c \in Cells |-> 0],
     enemies |-> << >>]

(* The body of the loop for one (x, y, gid).                               *)
ProcessTile(m, c, gid) ==
    IF gid \in walkable_gids
    THEN [m EXCEPT !.wall[c] = 0]
    ELSE IF gid \in enemy_gids
    THEN [m EXCEPT !.wall[c] = 0, !.goal[c] = 255,
                   !.enemies = Append(m.enemies, c)]
    ELSE [m EXCEPT !.wall[c] = 1]

(* The cells in the order in which a layer's iteration yields them.        *)
CellOrder == [i \in 1 .. map_width * map_height |-> CellAt(i - 1)]

(* for x, y, gid in layer: the loop's body once for every tile of the      *)
(* layer.  The tile of a cell writes the matrices at that cell only, and   *)
(* the enemy tiles are appended in the order of the iteration.             *)
ProcessLayer(m, layer) ==
    LET after(c) == ProcessTile(m, c, layer[c])
    IN [wall |-> [c \in Cells |-> after(c).wall[c]],
        goal |-> [c \in Cells |-> after(c).goal[c]],
        enemies |-> m.enemies \o
            SelectSeq(CellOrder,
                      LAMBDA c : Len(after(c).enemies) > Len(m.enemies))]

RECURSIVE ProcessLayers(_, _, _)
(* for layer in self.tiled_map.visible_layers: the matrices after the      *)
(* first k layers.                                                         *)
ProcessLayers(m, layers, k) ==
    IF k = 0
    THEN m
    ELSE ProcessLayer(ProcessLayers(m, layers, k - 1), layers[k])

BuildMatrices(layers) == ProcessLayers(EmptyMatrices, layers, Len(layers))

---------------------------------------------------------------------------
(* _get_distance_to_nearest_enemy and _get_observation.                    *)

SqDist(p, e) == (p[1] - e[1]) * (p[1] - e[1]) + (p[2] - e[2]) * (p[2] - e[2])

RECURSIVE MinDist(_, _, _)
(* min(distances) over enemies[k..]                                        *)
MinDist(p, enemies, k) ==
    IF k = Len(enemies)
    THEN SqDist(p, enemies[k])
    ELSE LET rest == MinDist(p, enemies, k + 1)
             d == SqDist(p, enemies[k])
         IN IF d <= rest THEN d ELSE rest

(* Variant: distance 0 when there is no enemy.                             *)
DistanceZeroWithoutEnemies(p, enemies) ==
    IF enemies = << >> THEN 0 ELSE MinDist(p, enemies, 1)

DistanceToNearestEnemy(p, enemies) ==
    IF enemies = << >> THEN INF ELSE MinDist(p, enemies, 1)

(* Variant: a <= b instead of a < b.                                       *)
DistLessOrEqual(a, b) ==
    IF b = INF THEN TRUE
    ELSE IF a = INF THEN FALSE
    ELSE a <= b

(* a < b on distances, where INF is float('inf').                          *)
DistLess(a, b) ==
    IF a = INF THEN FALSE
    ELSE IF b = INF THEN TRUE
    ELSE a < b

InBounds(c) ==
    /\ 0 <= c[2] /\ c[2] < map_height
    /\ 0 <= c[1] /\ c[1] < map_width

(* Variant: the wall channel is wall_matrix itself, not wall_matrix * 255. *)
GetObservationRawWalls(p, wall, goal) ==
    << wall,
       [c \in Cells |-> IF InBounds(p) /\ c = p THEN 255 ELSE 0],
       goal >>

(* np.stack([wall_matrix * 255, player_matrix, goal_matrix]), uint8.       *)
GetObservation(p, wall, goal) ==
    << [c \in Cells |-> (wall[c] * 255) % 256],
       [c \in Cells |-> IF InBounds(p) /\ c = p THEN 255 ELSE 0],
       goal >>

---------------------------------------------------------------------------
(* The state after construction.                                           *)

NoReturn == [obs |-> << >>, reward |-> 0, terminated |-> FALSE,
             truncated |-> FALSE, returned |-> FALSE]

TileMaps ==
    UNION {[1 .. n -> [Cells -> Gids]] : n \in 0 .. MaxLayers}

(* MapEnv(tmx_file, player_start_tile, enemy_gids, walkable_gids) on a map *)
(* of the given size and layers.                                           *)
Construct(width, height, layers, start) ==
    /\ map_width = width
    /\ map_height = height
    /\ tiled_map = layers
    /\ start_pos = start
    /\ LET m == BuildMatrices(tiled_map)
       IN /\ wall_matrix = m.wall
          /\ goal_matrix = m.goal
          /\ enemy_locations = m.enemies
          /\ last_distance = DistanceToNearestEnemy(start_pos, m.enemies)
    /\ player_pos = start_pos
    /\ call = [op |-> "init", action |-> 0, pos |-> start_pos,
               dist |-> last_distance]
    /\ ret = NoReturn

EnvInit ==
    /\ map_width = MapWidth
    /\ map_height = MapHeight
    /\ \E layers \in TileMaps, start \in Cells :
           Construct(MapWidth, MapHeight, layers, start)

---------------------------------------------------------------------------
(* reset()                                                                 *)

(* Variant: reset() that keeps the cached distance.                        *)
ResetKeepsDistance ==
    /\ player_pos' = start_pos
    /\ call' = [op |-> "reset", action |-> 0, pos |-> player_pos,
                dist |-> last_distance]
    /\ ret' = [NoReturn EXCEPT
                 !.obs = GetObservation(start_pos, wall_matrix, goal_matrix),
                 !.returned = TRUE]
    /\ UNCHANGED <<mapvars, last_distance>>

(* Variant: reset() that builds its observation before it moves the agent. *)
ResetStaleObservation ==
    /\ player_pos' = start_pos
    /\ last_distance' = DistanceToNearestEnemy(start_pos, enemy_locations)
    /\ call' = [op |-> "reset", action |-> 0, pos |-> player_pos,
                dist |-> last_distance]
    /\ ret' = [NoReturn EXCEPT
                 !.obs = GetObservation(player_pos, wall_matrix, goal_matrix),
                 !.returned = TRUE]
    /\ UNCHANGED mapvars

Reset ==
    LET d == DistanceToNearestEnemy(start_pos, enemy_locations)
        obs == GetObservation(start_pos, wall_matrix, goal_matrix)
    IN /\ player_pos' = start_pos
       /\ last_distance' = d
       /\ call' = [op |-> "reset", action |-> 0, pos |-> player_pos,
                   dist |-> last_distance]
       /\ ret' = [NoReturn EXCEPT !.obs = obs, !.returned = TRUE]
       /\ UNCHANGED mapvars

---------------------------------------------------------------------------
(* step(action)                                                            *)

(* Variant: up and down exchanged.                                         *)
CandidateUpDownExchanged(p, action) ==
    IF action = 0 THEN <<p[1], p[2] + 1>>
    ELSE IF action = 1 THEN <<p[1], p[2] - 1>>
    ELSE IF action = 2 THEN <<p[1] - 1, p[2]>>
    ELSE IF action = 3 THEN <<p[1] + 1, p[2]>>
    ELSE p

(* x, y after the if/elif chain on action.                                 *)
Candidate(p, action) ==
    IF action = 0 THEN <<p[1], p[2] - 1>>
    ELSE IF action = 1 THEN <<p[1], p[2] + 1>>
    ELSE IF action = 2 THEN <<p[1] - 1, p[2]>>
    ELSE IF action = 3 THEN <<p[1] + 1, p[2]>>
    ELSE p

(* Variant: only the edge of the map blocks.                               *)
BlockedIgnoringWalls(c, wall) == ~InBounds(c)

(* The two branches that leave the agent where it is.                      *)
Blocked(c, wall) ==
    IF ~InBounds(c) THEN TRUE ELSE wall[c] = 1

(* reward of the else branch.                                              *)
ShapingReward(new_distance, old_distance) ==
    IF DistLess(new_distance, old_distance)
    THEN REWARD_CLOSER
    ELSE REWARD_NOT_CLOSER

(* Variant: the goal check compares with 1, the value of a wall.           *)
AtGoalComparedWithOne(p, goal) == goal[p] = 1

(* The check on goal_matrix at the agent's position, after the branches.   *)
AtGoal(p, goal) == goal[p] = 255

(* Variant: the goal check sits in the else branch, after a move only.     *)
StepGoalCheckAfterMove(action) ==
    LET c == Candidate(player_pos, action)
        blocked == Blocked(c, wall_matrix)
        pos == IF blocked THEN player_pos ELSE c
        new_distance == DistanceToNearestEnemy(pos, enemy_locations)
        done == ~blocked /\ AtGoal(pos, goal_matrix)
        reward == IF done THEN REWARD_GOAL
                  ELSE IF ~InBounds(c) THEN REWARD_OUT_OF_BOUNDS
                  ELSE IF wall_matrix[c] = 1 THEN REWARD_WALL
                  ELSE ShapingReward(new_distance, last_distance)
    IN /\ player_pos' = pos
       /\ last_distance' = IF blocked THEN last_distance ELSE new_distance
       /\ call' = [op |-> "step", action |-> action, pos |-> player_pos,
                   dist |-> last_distance]
       /\ ret' = [obs |-> GetObservation(pos, wall_matrix, goal_matrix),
                  reward |-> reward, terminated |-> done,
                  truncated |-> FALSE, returned |-> TRUE]
       /\ UNCHANGED mapvars

(* Variant: once on a goal tile the agent no longer moves.                 *)
StepFrozenOnGoal(action) ==
    LET c == IF AtGoal(player_pos, goal_matrix) THEN <<-1, -1>>
             ELSE Candidate(player_pos, action)
        blocked == Blocked(c, wall_matrix)
        pos == IF blocked THEN player_pos ELSE c
        new_distance == DistanceToNearestEnemy(pos, enemy_locations)
        done == AtGoal(pos, goal_matrix)
        reward == IF done THEN REWARD_GOAL
                  ELSE IF ~InBounds(c) THEN REWARD_OUT_OF_BOUNDS
                  ELSE IF wall_matrix[c] = 1 THEN REWARD_WALL
                  ELSE ShapingReward(new_distance, last_distance)
    IN /\ player_pos' = pos
       /\ last_distance' = IF blocked THEN last_distance ELSE new_distance
       /\ call' = [op |-> "step", action |-> action, pos |-> player_pos,
                   dist |-> last_distance]
       /\ ret' = [obs |-> GetObservation(pos, wall_matrix, goal_matrix),
                  reward |-> reward, terminated |-> done,
                  truncated |-> FALSE, returned |-> TRUE]
       /\ UNCHANGED mapvars

Step(action) ==
    LET c == Candidate(player_pos, action)
        blocked == Blocked(c, wall_matrix)
        pos == IF blocked THEN player_pos ELSE c
        new_distance == DistanceToNearestEnemy(pos, enemy_locations)
        dist == IF blocked THEN last_distance ELSE new_distance
        branch == IF ~InBounds(c) THEN REWARD_OUT_OF_BOUNDS
                  ELSE IF wall_matrix[c] = 1 THEN REWARD_WALL
                  ELSE ShapingReward(new_distance, last_distance)
        done == AtGoal(pos, goal_matrix)
        reward == IF done THEN REWARD_GOAL ELSE branch
    IN /\ player_pos' = pos
       /\ last_distance' = dist
       /\ call' = [op |-> "step", action |-> action, pos |-> player_pos,
                   dist |-> last_distance]
       /\ ret' = [obs |-> GetObservation(pos, wall_matrix, goal_matrix),
                  reward |-> reward, terminated |-> done,
                  truncated |-> FALSE, returned |-> TRUE]
       /\ UNCHANGED mapvars

EnvNext ==
    \/ Reset
    \/ \E action \in ActionInputs : Step(action)

---------------------------------------------------------------------------
(* The scenario of an empty square map with one goal in the far corner,    *)
(* the agent starting in the near corner, walking right along the top row  *)
(* and then down the last column.                                          *)

ScenarioSize == 8

ScenarioCells == (0 .. ScenarioSize - 1) \X (0 .. ScenarioSize - 1)

ScenarioGoal == <<ScenarioSize - 1, ScenarioSize - 1>>

(* One layer: walkable tiles and one enemy tile.                           *)
ScenarioMap ==
    << [c \in ScenarioCells |->
           IF c = ScenarioGoal THEN ENEMY_GID ELSE WALKABLE_GID] >>

ScriptLength == 2 * (ScenarioSize - 1)

(* The k-th action of the walk: right, then down.                          *)
ScriptAction(k) == IF k <= ScenarioSize - 1 THEN 3 ELSE 1

(* The count of scripted steps after one more step with this action.       *)
Advance(k, action) ==
    IF k >= 0 /\ k < ScriptLength /\ action = ScriptAction(k + 1)
    THEN k + 1
    ELSE -1

ScenarioEnvInit ==
    Construct(ScenarioSize, ScenarioSize, ScenarioMap, <<0, 0>>)

ScenarioReset == Reset /\ script' = 0

ScenarioStep(action) == Step(action) /\ script' = Advance(script, action)

---------------------------------------------------------------------------
(* The level generator of test_env.py.                                     *)

(* Its configuration, scaled down from test_env.py's 48 x 36 map with 12   *)
(* rooms of 5..12 x 4..9 tiles.                                            *)
MAP_W == 10
MAP_H == 8
N_ROOMS == 2
ROOM_MIN_W == 2
ROOM_MAX_W == 3
ROOM_MIN_H == 2
ROOM_MAX_H == 3

(* The attempts the placement loop has per room.                           *)
ATTEMPTS_PER_ROOM == 12

GenCells == (0 .. MAP_W - 1) \X (0 .. MAP_H - 1)

(* Variant: the padding is ignored.                                        *)
rects_overlap_unpadded(a, b, padding) ==
    LET ax1 == a[1]  ay1 == a[2]  aw == a[3]  ah == a[4]
        bx1 == b[1]  by1 == b[2]  bw == b[3]  bh == b[4]
        ax2 == ax1 + aw - 1  ay2 == ay1 + ah - 1
        bx2 == bx1 + bw - 1  by2 == by1 + bh - 1
    IN ~(ax2 < bx1 \/ bx2 < ax1 \/ ay2 < by1 \/ by2 < ay1)

(* A rectangle is (x, y, w, h).                                            *)
rects_overlap(a, b, padding) ==
    LET ax1 == a[1]  ay1 == a[2]  aw == a[3]  ah == a[4]
        bx1 == b[1]  by1 == b[2]  bw == b[3]  bh == b[4]
        ax2 == ax1 + aw - 1  ay2 == ay1 + ah - 1
        bx2 == bx1 + bw - 1  by2 == by1 + bh - 1
    IN ~(\/ ax2 + padding < bx1 \/ bx2 + padding < ax1
         \/ ay2 + padding < by1 \/ by2 + padding < ay1)

Min(a, b) == IF a <= b THEN a ELSE b
Max(a, b) == IF a >= b THEN a ELSE b

(* grid[y][x] = tile for every cell of a set: an index past the end raises *)
(* IndexError (no grid then), a negative index counts from the end.        *)
Write(g, cells, tile) ==
    IF \E c \in cells : \/ c[1] >= MAP_W \/ c[1] < -MAP_W
                        \/ c[2] >= MAP_H \/ c[2] < -MAP_H
    THEN << >>
    ELSE LET wrapped == {<<(c[1] + MAP_W) % MAP_W, (c[2] + MAP_H) % MAP_H>> :
                             c \in cells}
         IN [c \in GenCells |-> IF c \in wrapped THEN tile ELSE g[c]]

carve_h_corridor(g, x1, x2, y, tile) ==
    Write(g, {<<x, y>> : x \in Min(x1, x2) .. Max(x1, x2)}, tile)

carve_v_corridor(g, y1, y2, x, tile) ==
    Write(g, {<<x, y>> : y \in Min(y1, y2) .. Max(y1, y2)}, tile)

(* The carving of a room: range(y, y+h) x range(x, x+w).                   *)
CarveRoom(g, r, tile) ==
    Write(g, (r[1] .. r[1] + r[3] - 1) \X (r[2] .. r[2] + r[4] - 1), tile)

(* (x + w//2, y + h//2)                                                    *)
Center(r) == <<r[1] + r[3] \div 2, r[2] + r[4] \div 2>>

(* Variant: the second segment starts from the wrong end.                  *)
CarveCorridorWrongCorner(g, c1, c2, horizontal_first, tile) ==
    IF horizontal_first
    THEN carve_v_corridor(carve_h_corridor(g, c1[1], c2[1], c1[2], tile),
                          c1[2], c2[2], c1[1], tile)
    ELSE carve_h_corridor(carve_v_corridor(g, c1[2], c2[2], c1[1], tile),
                          c1[1], c2[1], c1[2], tile)

(* The two branches of random.choice([True, False]).                       *)
CarveCorridor(g, c1, c2, horizontal_first, tile) ==
    IF horizontal_first
    THEN carve_v_corridor(carve_h_corridor(g, c1[1], c2[1], c1[2], tile),
                          c1[2], c2[2], c2[1], tile)
    ELSE carve_h_corridor(carve_v_corridor(g, c1[2], c2[2], c1[1], tile),
                          c1[1], c2[1], c2[2], tile)

(* random.randint(ROOM_MIN_W, ROOM_MAX_W), random.randint(ROOM_MIN_H, ...) *)
RoomWidths == ROOM_MIN_W .. ROOM_MAX_W
RoomHeights == ROOM_MIN_H .. ROOM_MAX_H

(* Variant: rooms may reach the last column.                               *)
RoomXsUpToTheEdge(w) == 1 .. MAP_W - w

(* random.randint(1, MAP_W - w - 2), random.randint(1, MAP_H - h - 2)      *)
RoomXs(w) == 1 .. MAP_W - w - 2
RoomYs(h) == 1 .. MAP_H - h - 2

(* Variant: attempts <= N_ROOMS * 12.                                      *)
LoopContinuesOnceMore ==
    Len(rooms) < N_ROOMS /\ attempts <= N_ROOMS * ATTEMPTS_PER_ROOM

(* The condition of the placement loop.                                    *)
LoopContinues ==
    Len(rooms) < N_ROOMS /\ attempts < N_ROOMS * ATTEMPTS_PER_ROOM

(* The grid main() hands over: every cell the background tile.             *)
GenInit ==
    /\ gen_pc = "rooms"
    /\ rooms = << >>
    /\ attempts = 0
    /\ grid = [c \in GenCells |-> "background"]
    /\ pair = 0

(* One iteration of the placement loop, with the four draws.               *)
PlaceRoom(w, h, x, y) ==
    /\ gen_pc = "rooms"
    /\ LoopContinues
    /\ LET new_rect == <<x, y, w, h>>
       IN IF \E k \in 1 .. Len(rooms) : rects_overlap(new_rect, rooms[k], 1)
          THEN /\ attempts' = attempts + 1
               /\ UNCHANGED <<gen_pc, rooms, grid, pair>>
          ELSE LET carved == CarveRoom(grid, new_rect, "floor")
               IN /\ grid' = carved
                  /\ gen_pc' = IF carved = << >> THEN "IndexError" ELSE "rooms"
                  /\ rooms' = IF carved = << >> THEN rooms
                              ELSE Append(rooms, new_rect)
                  /\ attempts' = IF carved = << >> THEN attempts
                                 ELSE attempts + 1
                  /\ pair' = pair

(* The loop ends; the corridor loop starts at i = 1.                       *)
EndRooms ==
    /\ gen_pc = "rooms"
    /\ ~LoopContinues
    /\ gen_pc' = "corridors"
    /\ pair' = 1
    /\ UNCHANGED <<rooms, attempts, grid>>

(* One iteration of the corridor loop: rooms[i-1] and rooms[i], which are  *)
(* rooms[pair] and rooms[pair + 1] here.                                   *)
Connect(horizontal_first) ==
    /\ gen_pc = "corridors"
    /\ pair < Len(rooms)
    /\ LET carved == CarveCorridor(grid, Center(rooms[pair]),
                                   Center(rooms[pair + 1]),
                                   horizontal_first, "path")
       IN /\ grid' = carved
          /\ gen_pc' = IF carved = << >> THEN "IndexError" ELSE "corridors"
          /\ pair' = pair + 1
    /\ UNCHANGED <<rooms, attempts>>

(* return rooms                                                            *)
EndCorridors ==
    /\ gen_pc = "corridors"
    /\ pair >= Len(rooms)
    /\ gen_pc' = "done"
    /\ UNCHANGED <<rooms, attempts, grid, pair>>

GenNext ==
    \/ \E w \in RoomWidths, h \in RoomHeights :
           \E x \in RoomXs(w), y \in RoomYs(h) : PlaceRoom(w, h, x, y)
    \/ EndRooms
    \/ \E horizontal_first \in BOOLEAN : Connect(horizontal_first)
    \/ EndCorridors

(* The generator's variables while MapEnv runs.                            *)
GenIdle ==
    /\ gen_pc = "idle"
    /\ rooms = << >>
    /\ attempts = 0
    /\ grid = << >>
    /\ pair = 0

(* The side of a castle block.                                             *)
CASTLE_SIZE == 4

(* The choices of tiles whose decoration roll succeeds: none of them, the  *)
(* centre of one room, or all of them.                                     *)
TreeDraws ==
    {{}, GenCells} \cup {{Center(rooms[k])} : k \in 1 .. Len(rooms)}

Area(r) == r[3] * r[4]

(* sorted(rooms, key=area, reverse=True) keeps the order of rooms of equal *)
(* area: the indices of rooms, largest first.                              *)
SortedByArea ==
    LET before(i, j) ==
            \/ Area(rooms[i]) > Area(rooms[j])
            \/ Area(rooms[i]) = Area(rooms[j]) /\ i < j
    IN [k \in 1 .. Len(rooms) |->
           CHOOSE i \in 1 .. Len(rooms) :
               Cardinality({j \in 1 .. Len(rooms) : before(j, i)}) = k - 1]

(* (r[0] + r[2]//2 - 1, r[1] + r[3]//2 - 1)                                *)
CastleOrigin(r) == <<r[1] + r[3] \div 2 - 1, r[2] + r[4] \div 2 - 1>>

(* The block from the origin on; what falls outside the grid is skipped.   *)
place_castle(g, origin, castle_tile) ==
    Write(g, {c \in (origin[1] .. origin[1] + CASTLE_SIZE - 1)
                    \X (origin[2] .. origin[2] + CASTLE_SIZE - 1) :
                  /\ 0 <= c[1] /\ c[1] < MAP_W
                  /\ 0 <= c[2] /\ c[2] < MAP_H}, castle_tile)

add_decorations(g, trees, tree_tile) == Write(g, trees, tree_tile)

(* Nothing of main has run.                                                *)
MainIdle ==
    /\ castles = << >>
    /\ spawns = << >>
    /\ hero_pos = << >>

(* main: castles in the two largest rooms, if there are two rooms.         *)
PlaceCastles ==
    /\ gen_pc = "done"
    /\ IF Len(rooms) >= 2
       THEN LET r1 == rooms[SortedByArea[1]]
                r2 == rooms[SortedByArea[2]]
                c1 == CastleOrigin(r1)
                c2 == CastleOrigin(r2)
            IN /\ grid' = place_castle(place_castle(grid, c1, "castle"),
                                       c2, "castle")
               /\ castles' = <<c1, c2>>
       ELSE UNCHANGED <<grid, castles>>
    /\ gen_pc' = "castles"
    /\ UNCHANGED <<rooms, attempts, pair, spawns, hero_pos>>

(* main: the decorations.                                                  *)
Decorate(trees) ==
    /\ gen_pc = "castles"
    /\ grid' = add_decorations(grid, trees, "tree")
    /\ gen_pc' = "decorated"
    /\ UNCHANGED <<rooms, attempts, pair, mainvars>>

(* main: the spawn points and the hero's position.                         *)
PlaceSpawns ==
    /\ gen_pc = "decorated"
    /\ LET first == SubSeq(rooms, 1, Min(6, Len(rooms)))
           centres == [k \in 1 .. Len(first) |-> Center(first[k])]
       IN /\ spawns' = centres
          /\ hero_pos' = IF centres # << >> THEN centres[1]
                         ELSE <<MAP_W \div 2, MAP_H \div 2>>
    /\ gen_pc' = "spawned"
    /\ UNCHANGED <<rooms, attempts, grid, pair, castles>>

MainNext ==
    \/ PlaceCastles
    \/ \E trees \in TreeDraws : Decorate(trees)
    \/ PlaceSpawns

(* MapEnv's variables while the generator runs: a map without layers.      *)
EnvIdle == Construct(MapWidth, MapHeight, << >>, <<0, 0>>)

---------------------------------------------------------------------------
(* The specifications.                                                     *)

(* MapEnv on every small map, under any calls of reset and step.           *)
Init == EnvInit /\ script = -1 /\ GenIdle /\ MainIdle

Next == EnvNext /\ UNCHANGED <<script, genvars, mainvars>>

Spec == Init /\ [][Next]_vars

(* MapEnv on the scenario's map, under any calls of reset and step.        *)
ScenarioInit == ScenarioEnvInit /\ script = -1 /\ GenIdle /\ MainIdle

ScenarioNext ==
    \/ ScenarioReset /\ UNCHANGED <<genvars, mainvars>>
    \/ \E action \in ActionInputs :
           ScenarioStep(action) /\ UNCHANGED <<genvars, mainvars>>

SpecScenario == ScenarioInit /\ [][ScenarioNext]_vars

(* create_rooms_and_corridors under any draws.                             *)
GeneratorInit == GenInit /\ EnvIdle /\ script = -1 /\ MainIdle

GeneratorNext == GenNext /\ UNCHANGED <<envvars, script, mainvars>>

SpecGenerator == GeneratorInit /\ [][GeneratorNext]_vars

(* main: the generator, then castles, decorations and spawn points.        *)
ProgramInit == GenInit /\ EnvIdle /\ script = -1 /\ MainIdle

ProgramNext ==
    \/ GenNext /\ UNCHANGED <<envvars, script, mainvars>>
    \/ MainNext /\ UNCHANGED <<envvars, script>>

SpecProgram == ProgramInit /\ [][ProgramNext]_vars

---------------------------------------------------------------------------
(* The vocabulary of the properties, stated on the grid itself rather than *)
(* through the operators above.                                            *)

Moves == 0 .. 3

DeltaX(action) == CASE action = 2 -> -1 [] action = 3 -> 1 [] OTHER -> 0
DeltaY(action) == CASE action = 0 -> -1 [] action = 1 -> 1 [] OTHER -> 0

(* The tile one step from p in the direction of action.                    *)
Target(p, action) == <<p[1] + DeltaX(action), p[2] + DeltaY(action)>>

(* The tile is on the map and is no wall.                                  *)
Enterable(c) == c \in Cells /\ wall_matrix[c] = 0

GoalCells == {c \in Cells : goal_matrix[c] = 255}

SquaredDistance(p, g) ==
    (p[1] - g[1]) * (p[1] - g[1]) + (p[2] - g[2]) * (p[2] - g[2])

(* The nearest goal is strictly nearer to p than to q.                     *)
StrictlyNearer(p, q) ==
    \E g \in GoalCells :
        \A h \in GoalCells : SquaredDistance(p, g) < SquaredDistance(q, h)

(* The nearest-goal distance from p (squared), INF without goals.          *)
NearestGoal(p) ==
    IF GoalCells = {}
    THEN INF
    ELSE CHOOSE d \in {SquaredDistance(p, g) : g \in GoalCells} :
             \A g \in GoalCells : d <= SquaredDistance(p, g)

(* The observation of an agent at p: walls, agent, goals.                  *)
ObservationAt(p) ==
    << [c \in Cells |-> IF wall_matrix[c] = 1 THEN 255 ELSE 0],
       [c \in Cells |-> IF c = p THEN 255 ELSE 0],
       [c \in Cells |-> IF goal_matrix[c] = 255 THEN 255 ELSE 0] >>

(* The last call was a step with one of the four moves.                    *)
Moved == call.op = "step" /\ call.action \in Moves

(* ... whose candidate tile could be entered / could not.                  *)
MoveSucceeded == Moved /\ Enterable(Target(call.pos, call.action))
MoveBlocked == Moved /\ ~Enterable(Target(call.pos, call.action))

---------------------------------------------------------------------------
(* C1: after step(action) with a valid action the agent is on the          *)
(* candidate tile if that tile is on the map and no wall, and where it was *)
(* otherwise.                                                              *)
C1_MoveOrStay ==
    Moved =>
        player_pos = IF Enterable(Target(call.pos, call.action))
                     THEN Target(call.pos, call.action)
                     ELSE call.pos

(* A step downwards that entered a tile, on a map that has a wall.         *)
C1_Witness ==
    /\ MoveSucceeded
    /\ call.action = 1
    /\ player_pos = <<call.pos[1], call.pos[2] + 1>>
    /\ \E c \in Cells : wall_matrix[c] = 1

(* C2 as claimed: a blocked move always returns terminated = false and     *)
(* the -5 penalty.                                                         *)
C2_BlockedNeverVictory ==
    MoveBlocked => ret.terminated = FALSE /\ ret.reward = -10

(* C2, amended: a blocked move returns terminated = false and the -5       *)
(* penalty unless the agent already stands on a goal tile; there it        *)
(* returns terminated = true and the victory reward 100.                   *)
C2_BlockedVictoryOnlyOnGoal ==
    MoveBlocked =>
        IF goal_matrix[call.pos] = 255
        THEN ret.terminated = TRUE /\ ret.reward = 200
        ELSE ret.terminated = FALSE /\ ret.reward = -10

(* A move into a wall by an agent that stands on no goal tile.             *)
C2_Witness ==
    /\ MoveBlocked
    /\ Target(call.pos, call.action) \in Cells
    /\ goal_matrix[call.pos] = 0
    /\ ret.reward = -10

(* C3: step with an action outside {0,1,2,3} signals an error instead of   *)
(* returning a result, and leaves position and cached distance unchanged.  *)
C3_InvalidActionFailsFast ==
    (call.op = "step" /\ call.action \notin Moves) =>
        /\ ret.returned = FALSE
        /\ player_pos = call.pos
        /\ last_distance = call.dist

(* C4: every goal tile is enterable: goal_matrix set implies wall_matrix   *)
(* clear, after construction and ever after.                               *)
C4_GoalsEnterable ==
    \A c \in Cells : goal_matrix[c] = 255 => wall_matrix[c] = 0

(* C5: a successful move onto a goal tile returns 100 and terminated; any  *)
(* other successful move returns a positive reward (1.0) exactly when the  *)
(* nearest goal is strictly nearer to the destination than to the tile the *)
(* agent left, and -0.5 otherwise.                                         *)
C5_RewardSign ==
    MoveSucceeded =>
        LET dest == Target(call.pos, call.action)
        IN IF goal_matrix[dest] = 255
           THEN ret.reward = 200 /\ ret.terminated = TRUE
           ELSE /\ ret.terminated = FALSE
                /\ (ret.reward > 0) <=> StrictlyNearer(dest, call.pos)
                /\ ret.reward > 0 => ret.reward = 2
                /\ ret.reward <= 0 => ret.reward = -1

(* A successful move that came nearer to a goal without reaching it.       *)
C5_Witness ==
    /\ MoveSucceeded
    /\ goal_matrix[player_pos] = 0
    /\ StrictlyNearer(player_pos, call.pos)
    /\ ret.reward = 2

(* C6: the cached distance is the nearest-goal distance of the agent's     *)
(* position, in every state.                                               *)
C6_DistanceInSync ==
    last_distance = NearestGoal(player_pos)

(* A successful move that changed the nearest-goal distance.               *)
C6_Witness ==
    /\ MoveSucceeded
    /\ last_distance # call.dist
    /\ last_distance # INF

(* C7: whatever came before, reset() puts the agent on the start tile,     *)
(* caches the nearest-goal distance of the start tile and returns the      *)
(* observation of the agent on the start tile: every reset returns what    *)
(* the first one returned.                                                 *)
C7_ResetRestarts ==
    call.op = "reset" =>
        /\ player_pos = start_pos
        /\ last_distance = NearestGoal(start_pos)
        /\ ret.obs = ObservationAt(start_pos)
        /\ ret.returned

(* A reset in mid-episode: the agent was off the start tile, at another    *)
(* distance from the goals.                                                *)
C7_Witness ==
    /\ call.op = "reset"
    /\ call.pos # start_pos
    /\ call.dist # last_distance

(* C8: step returns terminated = true exactly when the agent's position    *)
(* after the step is a goal tile, whatever the action and whether or not   *)
(* the move was blocked; it never sets truncated.                          *)
C8_TerminatedIffOnGoal ==
    call.op = "step" =>
        /\ ret.terminated <=> goal_matrix[player_pos] = 255
        /\ ret.truncated = FALSE

(* A blocked step of an agent on a goal tile: terminated again.            *)
C8_Witness ==
    /\ MoveBlocked
    /\ goal_matrix[player_pos] = 255
    /\ ret.terminated

(* The tile id of a cell: that of the topmost visible layer, the empty id  *)
(* on a map without layers.                                                *)
TopGid(c) ==
    IF Len(tiled_map) = 0 THEN 0 ELSE tiled_map[Len(tiled_map)][c]

(* C9: deny by default: a walkable id gives wall = 0 and goal = 0, an      *)
(* enemy id wall = 0 and goal = 255, any other id wall = 1 and goal = 0,   *)
(* on every map, also one with several layers over a cell.                 *)
C9_DenyByDefault ==
    \A c \in Cells :
        IF TopGid(c) \in walkable_gids
        THEN wall_matrix[c] = 0 /\ goal_matrix[c] = 0
        ELSE IF TopGid(c) \in enemy_gids
        THEN wall_matrix[c] = 0 /\ goal_matrix[c] = 255
        ELSE wall_matrix[c] = 1 /\ goal_matrix[c] = 0

(* C10: a blocked move changes nothing: position, cached distance,         *)
(* matrices and goal list stay, the observation returned is the one of     *)
(* the state before, and leaving the map costs what hitting a wall costs.  *)
C10_BlockedChangesNothing ==
    [][ (call'.op = "step" /\ call'.action \in Moves
         /\ ~Enterable(Target(player_pos, call'.action)))
        => /\ UNCHANGED <<player_pos, last_distance, wall_matrix,
                          goal_matrix, enemy_locations>>
           /\ ret'.obs = ObservationAt(player_pos)
           /\ goal_matrix[player_pos] = 0 => ret'.reward = -10
           /\ goal_matrix[player_pos] = 255 => ret'.reward = 200 ]_vars

(* A move into a wall, after which the agent is where it was.              *)
C10_Witness ==
    /\ MoveBlocked
    /\ Target(call.pos, call.action) \in Cells
    /\ wall_matrix[Target(call.pos, call.action)] = 1
    /\ player_pos = call.pos
    /\ ret.obs = ObservationAt(call.pos)

---------------------------------------------------------------------------
(* Where the scripted walk stands after its k-th step.                     *)
WalkPosition(k) ==
    IF k <= ScenarioSize - 1
    THEN <<k, 0>>
    ELSE <<ScenarioSize - 1, k - (ScenarioSize - 1)>>

(* C11: on the empty square map with the goal in the far corner, walking   *)
(* right along the top row and down the last column after a reset stays on *)
(* the grid, returns terminated = false and reward 1.0 at every step but   *)
(* the last, and terminated = true with reward 100 at the last step.       *)
C11_ScenarioWalk ==
    script >= 1 =>
        /\ call.op = "step"
        /\ call.action = (IF script <= ScenarioSize - 1 THEN 3 ELSE 1)
        /\ player_pos = WalkPosition(script)
        /\ player_pos \in ScenarioCells
        /\ IF script < 2 * (ScenarioSize - 1)
           THEN ret.terminated = FALSE /\ ret.reward = 2
           ELSE ret.terminated = TRUE /\ ret.reward = 200

(* The walk has made its last step, onto the goal.                         *)
C11_Witness ==
    /\ script = 2 * (ScenarioSize - 1)
    /\ player_pos = <<ScenarioSize - 1, ScenarioSize - 1>>
    /\ ret.terminated

---------------------------------------------------------------------------
(* C12: without goals the nearest-goal distance is the infinite sentinel,  *)
(* every successful move returns -0.5, every blocked move -5, and no step  *)
(* returns terminated = true or fails to return.                           *)
C12_NoGoals ==
    GoalCells = {} =>
        /\ last_distance = INF
        /\ call.op = "step" =>
              /\ ret.returned
              /\ ret.terminated = FALSE
              /\ MoveSucceeded => ret.reward = -1
              /\ MoveBlocked => ret.reward = -10

(* A successful move on a map without goals.                               *)
C12_Witness ==
    /\ GoalCells = {}
    /\ enemy_locations = << >>
    /\ MoveSucceeded
    /\ player_pos # call.pos
    /\ ret.reward = -1

C19_AgentOnFreeTile ==
    (start_pos \in Cells /\ wall_matrix[start_pos] = 0) =>
        /\ player_pos \in Cells
        /\ wall_matrix[player_pos] = 0

(* The agent, started on a free tile, has just bumped into a wall.         *)
C19_Witness ==
    /\ wall_matrix[start_pos] = 0
    /\ MoveBlocked
    /\ Target(call.pos, call.action) \in Cells
    /\ player_pos # start_pos

(* C20 as claimed: a step taken from a goal tile, after termination, never *)
(* brings position and cached distance back to their start values.         *)
C20_StartValuesOnlyByReset ==
    (call.op = "step" /\ goal_matrix[call.pos] = 255 /\ call.pos # start_pos) =>
        ~(player_pos = start_pos /\ last_distance = NearestGoal(start_pos))

(* C20, amended: a step taken from a goal tile follows the rules of any    *)
(* step, against the cached distance 0: it enters the candidate tile when  *)
(* that is free (terminated = false and -0.5 unless the tile is a goal     *)
(* again) and stays, terminated again, when it is not; so it brings the    *)
(* agent back to the start tile only by moving onto it.                    *)
C20_StepAfterTermination ==
    (Moved /\ goal_matrix[call.pos] = 255) =>
        LET t == Target(call.pos, call.action)
        IN /\ call.dist = 0
           /\ IF Enterable(t)
              THEN /\ player_pos = t
                   /\ last_distance = NearestGoal(t)
                   /\ IF goal_matrix[t] = 255
                      THEN ret.terminated = TRUE /\ ret.reward = 200
                      ELSE ret.terminated = FALSE /\ ret.reward = -1
              ELSE /\ player_pos = call.pos
                   /\ last_distance = 0
                   /\ ret.terminated = TRUE /\ ret.reward = 200
           /\ player_pos = start_pos => (call.pos = start_pos \/ t = start_pos)

(* The agent, started off the goals, has reached a goal tile and stepped   *)
(* off it again.                                                           *)
C20_Witness ==
    /\ goal_matrix[start_pos] = 0
    /\ Moved
    /\ goal_matrix[call.pos] = 255
    /\ call.dist = 0
    /\ player_pos # call.pos
    /\ ret.terminated = FALSE
    /\ ret.reward = -1

(* ---------------------------------------------------------------------- *)
(* The generator's rooms and corridors.                                    *)

RoomLeft(r) == r[1]
RoomTop(r) == r[2]
RoomRight(r) == r[1] + r[3] - 1
RoomBottom(r) == r[2] + r[4] - 1

(* At least one full tile lies between the two rooms along an axis.        *)
Apart(a, b) ==
    \/ RoomLeft(b) - RoomRight(a) >= 2
    \/ RoomLeft(a) - RoomRight(b) >= 2
    \/ RoomTop(b) - RoomBottom(a) >= 2
    \/ RoomTop(a) - RoomBottom(b) >= 2

(* C14: at every point of the placement loop and in its result, any two    *)
(* accepted rooms are separated by at least one full tile along the x or   *)
(* the y axis.                                                             *)
C14_RoomsApart ==
    \A i \in 1 .. Len(rooms) : \A j \in 1 .. Len(rooms) :
        i < j => Apart(rooms[i], rooms[j])

(* Two rooms exactly one tile apart, accepted after a rejected draw.       *)
C14_Witness ==
    /\ Len(rooms) = 2
    /\ attempts > 2
    /\ RoomLeft(rooms[2]) - RoomRight(rooms[1]) = 2

Carved(c) == grid[c] \in {"floor", "path"}

Adjacent(c, d) ==
    \/ c[1] = d[1] /\ (c[2] - d[2] = 1 \/ d[2] - c[2] = 1)
    \/ c[2] = d[2] /\ (c[1] - d[1] = 1 \/ d[1] - c[1] = 1)

(* The carved tiles one can walk to from a set of tiles.                   *)
RECURSIVE ReachableFrom(_)
ReachableFrom(S) ==
    LET more == S \cup {d \in GenCells :
                           Carved(d) /\ \E c \in S : Adjacent(c, d)}
    IN IF more = S THEN S ELSE ReachableFrom(more)

MidTile(r) == <<r[1] + r[3] \div 2, r[2] + r[4] \div 2>>

(* C15: once the corridors are carved, the centre of every room is a       *)
(* carved tile from which the centre of every other room is reached by     *)
(* 4-neighbour steps over carved tiles, whichever L-shape was drawn.       *)
C15_RoomsConnected ==
    gen_pc = "done" =>
        \A i \in 1 .. Len(rooms) :
            /\ Carved(MidTile(rooms[i]))
            /\ \A j \in 1 .. Len(rooms) :
                   MidTile(rooms[j]) \in ReachableFrom({MidTile(rooms[i])})

(* Two rooms whose centres differ along both axes, joined by a corridor    *)
(* that runs over background tiles.                                        *)
C15_Witness ==
    /\ gen_pc = "done"
    /\ Len(rooms) = 2
    /\ MidTile(rooms[1])[1] # MidTile(rooms[2])[1]
    /\ MidTile(rooms[1])[2] # MidTile(rooms[2])[2]
    /\ \E c \in GenCells : grid[c] = "path"
    /\ grid[<<MidTile(rooms[1])[1], MidTile(rooms[2])[2]>>] = "path"

OnBorder(c) ==
    c[1] = 0 \/ c[1] = MAP_W - 1 \/ c[2] = 0 \/ c[2] = MAP_H - 1

(* C16: every accepted room has its width and height in the configured     *)
(* ranges and lies inside the map with a margin of one tile, and no write  *)
(* leaves the grid: the border stays background.                           *)
C16_RoomsInsideMap ==
    /\ gen_pc # "IndexError"
    /\ \A i \in 1 .. Len(rooms) :
           /\ rooms[i][3] >= ROOM_MIN_W /\ rooms[i][3] <= ROOM_MAX_W
           /\ rooms[i][4] >= ROOM_MIN_H /\ rooms[i][4] <= ROOM_MAX_H
           /\ 1 <= RoomLeft(rooms[i]) /\ RoomRight(rooms[i]) <= MAP_W - 2
           /\ 1 <= RoomTop(rooms[i]) /\ RoomBottom(rooms[i]) <= MAP_H - 2
    /\ \A c \in GenCells : OnBorder(c) => grid[c] = "background"

(* A widest and highest room at the largest x and y that can be drawn.     *)
C16_Witness ==
    /\ gen_pc = "done"
    /\ \E i \in 1 .. Len(rooms) :
           /\ rooms[i][3] = ROOM_MAX_W /\ rooms[i][4] = ROOM_MAX_H
           /\ RoomLeft(rooms[i]) = MAP_W - ROOM_MAX_W - 2
           /\ RoomTop(rooms[i]) = MAP_H - ROOM_MAX_H - 2
           /\ grid[<<RoomRight(rooms[i]), RoomBottom(rooms[i])>>] = "floor"

Budget == N_ROOMS * ATTEMPTS_PER_ROOM

(* C17: the placement loop makes at most N_ROOMS * 12 attempts, each       *)
(* iteration using one; it accepts at most N_ROOMS rooms and stops as soon *)
(* as it has them; it is left only with N_ROOMS rooms or with the budget   *)
(* used up, and the corridors are then carved without an error.            *)
C17_PlacementWithinBudget ==
    /\ [](/\ attempts <= Budget
          /\ Len(rooms) <= N_ROOMS
          /\ Len(rooms) <= attempts
          /\ gen_pc # "IndexError"
          /\ (gen_pc \in {"corridors", "done"}) =>
                (Len(rooms) = N_ROOMS \/ attempts = Budget))
    /\ [][/\ (gen_pc = "rooms" /\ gen_pc' = "rooms") =>
                (/\ attempts' = attempts + 1
                 /\ Len(rooms') - Len(rooms) \in {0, 1})
          /\ (gen_pc = "rooms" /\ Len(rooms) = N_ROOMS) =>
                (gen_pc' = "corridors" /\ attempts' = attempts)
          /\ (gen_pc \in {"corridors", "done"}) =>
                (rooms' = rooms /\ attempts' = attempts)]_vars

(* The budget is used up with fewer rooms than asked for, and the corridor *)
(* loop has run to its end.                                                *)
C17_Witness ==
    /\ gen_pc = "done"
    /\ attempts = Budget
    /\ Len(rooms) < N_ROOMS
    /\ Len(rooms) > 0

(* ---------------------------------------------------------------------- *)
(* The landmarks and the agent's start.                                    *)

(* The tile lies in the 4 x 4 block that starts at the origin.             *)
InCastleBlock(c, origin) ==
    /\ origin[1] <= c[1] /\ c[1] <= origin[1] + 3
    /\ origin[2] <= c[2] /\ c[2] <= origin[2] + 3

(* C21: in the output of a run that accepted at least two rooms, the       *)
(* agent's default start, spawns[0], lies in no castle block.              *)
C21_StartOutsideCastles ==
    (gen_pc = "spawned" /\ Len(rooms) >= 2) =>
        \A k \in 1 .. Len(castles) : ~InCastleBlock(spawns[1], castles[k])

===========================================================================
